---- MODULE Spec2Model ----
(***************************************************************************)
(* Model of src/main.py: the update check (get_local_version,              *)
(* get_remote_info, download_db, update_db_if_needed), the issue queries   *)
(* (load_issues, get_filtered_issues, DetailScreen.set_detail) and the     *)
(* handlers of the application that call them (MainApp.on_start,           *)
(* MainScreen.populate_main_list, MainScreen.on_tab_switch,                *)
(* MainApp.open_detail, MainApp.show_update_snackbar).                     *)
(*                                                                         *)
(* Python strings are sequences of one-character strings; None is a value  *)
(* that is no string.  A file is a record; the database file is a sequence *)
(* of chunks, each tagged with the published version it comes from.        *)
(***************************************************************************)
EXTENDS Integers, Sequences, FiniteSets, TLC

VARIABLES
    versionFile,   \* local_version.json (LOCAL_VERSION_FILE)
    dataDir,       \* whether the directory "data" exists
    dbFile,        \* data/issues.db (LOCAL_DB_FILE)
    app,           \* "stopped", "running" or "crashed" (uncaught exception)
    uncaught,      \* the handler whose exception went uncaught, or "none"
    handler,       \* the handler that ran last, or "none"
    run,           \* the last call of update_db_if_needed: inputs and result
    snackbar,      \* the notification opened by show_update_snackbar
    current_tab,   \* MainScreen.current_tab
    keyword,       \* the keyword passed to the last populate_main_list
    filtered,      \* the rows the last get_filtered_issues returned
    issue_list,    \* ids.issue_list: the titles of the list items
    screen,        \* root.current
    detail_title,  \* ids.detail_title.text
    detail_box     \* ids.detail_box: the cards, in order

vars == <<versionFile, dataDir, dbFile, app, uncaught, handler, run, snackbar,
          current_tab, keyword, filtered, issue_list, screen, detail_title,
          detail_box>>

files == <<versionFile, dataDir, dbFile>>

ui == <<current_tab, keyword, filtered, issue_list, screen, detail_title,
        detail_box>>

---------------------------------------------------------------------------
\* Bounds of the model.

\* Highest version number the remote manifest publishes.
MaxVersion == 2

\* Number of 1024-byte chunks of a published database file.
NChunks == 2

\* Highest number of rows of the issues table (query specification).
MaxRows == 2

---------------------------------------------------------------------------
\* Values.

\* Python's None (a NULL column of the issues table): no string.
None == <<"None">>

Space == " "

\* The three tabs: "all", "company position", "union position".
TabAll == "ALL"

TabCompany == "COMPANY"

TabUnion == "UNION"

Tabs == {TabAll, TabCompany, TabUnion}

Titles == {<<"a">>, <<"a", Space, "b">>}

\* Titles asked of set_detail: the stored ones and one stored nowhere.
TitleInputs == Titles \cup {<<"b">>}

\* Keywords typed into the search field.
Keywords == {<<>>, <<Space>>, <<Space, "a">>, <<"b">>}

\* company and union_opt of the rows of the query specification: each is
\* NULL, empty, blank or text in blanks.
Positions == {<<None, <<Space, "x", Space>>>>,
              <<<<>>, <<Space>>>>,
              <<<<Space>>, None>>,
              <<<<Space, "x", Space>>, <<>>>>,
              <<<<Space, "x", Space>>, <<Space, "x", Space>>>>}

\* Rows (title, summary, company, union_opt) of the issues table.
Rows == {<<t, <<"s">>, p[1], p[2]>> : t \in Titles, p \in Positions}

Tables == UNION {[1..n -> Rows] : n \in 0..MaxRows}

---------------------------------------------------------------------------
\* Python's str methods and truth value.

RECURSIVE lstrip(_)
lstrip(s) ==
    IF s # <<>> /\ Head(s) = Space THEN lstrip(Tail(s)) ELSE s

RECURSIVE rstrip(_)
rstrip(s) ==
    IF s # <<>> /\ s[Len(s)] = Space
    THEN rstrip(SubSeq(s, 1, Len(s) - 1))
    ELSE s

\* str.strip(): the string without its leading and trailing whitespace.
strip(s) == rstrip(lstrip(s))

\* k in t, for strings.
contains(t, k) ==
    \E i \in 0..(Len(t) - Len(k)) : SubSeq(t, i + 1, i + Len(k)) = k

\* bool(x) of a string or None.
truthy(x) == x # None /\ x # <<>>

---------------------------------------------------------------------------
\* Files.

AbsentVersionFile == [kind |-> "absent", version |-> 0]

\* local_version.json that json.load cannot read (empty or cut short).
MalformedVersionFile == [kind |-> "malformed", version |-> 0]

\* local_version.json holding {"version": v}.
JsonVersionFile(v) == [kind |-> "json", version |-> v]

AbsentDbFile == [exists |-> FALSE, data |-> <<>>]

\* The database file published as version v with table R, chunk by chunk.
Blob(v, R) == [i \in 1..NChunks |-> [ver |-> v, rows |-> R, part |-> i]]

\* The table each published version holds (version 0: the file shipped
\* with the application).
PublishedRows(v) ==
    IF v % 2 = 0
    THEN << <<<<"a">>, <<"s">>, <<Space, "x", Space>>, <<>>>> >>
    ELSE << <<<<"a">>, <<"s">>, None, <<Space, "x", Space>>>>,
            <<<<"a", Space, "b">>, <<"s">>, <<Space>>, <<Space, "x", Space>>>> >>

\* What the url of the manifest of version v serves.
RemoteBlob(v) == Blob(v, PublishedRows(v))

\* sqlite3 reads the file as a database: a whole published file.
IsDatabase(db) ==
    /\ db.exists
    /\ Len(db.data) = NChunks
    /\ Len(db.data) > 0
    /\ db.data = Blob(db.data[1].ver, db.data[1].rows)

---------------------------------------------------------------------------
\* The inputs of one update check: what the network and the disk do.

NoFaultDownload == [fault |-> "none", chunks |-> NChunks]

\* "request": requests.get or raise_for_status raises, before the file is
\* opened; "stream": iter_content or f.write raises after `chunks` chunks.
Downloads ==
    {NoFaultDownload, [fault |-> "request", chunks |-> 0]}
    \cup {[fault |-> "stream", chunks |-> k] : k \in 0..(NChunks - 1)}

\* "open": open(LOCAL_VERSION_FILE, "w") raises; "dump": json.dump raises
\* after the file was opened (and so emptied).
Writes == {"none", "open", "dump"}

OkManifests == {[kind |-> "ok", version |-> v] : v \in 0..MaxVersion}

\* "network": the GET fails; "malformed": the body is no JSON; "noversion",
\* "nourl": the JSON object lacks the field.
BadManifests ==
    {[kind |-> k, version |-> 0] :
        k \in {"network", "malformed", "noversion", "nourl"}}

Envs ==
    {[manifest |-> m, download |-> NoFaultDownload, write |-> "none"] :
        m \in BadManifests}
    \cup {[manifest |-> m, download |-> d, write |-> "none"] :
            m \in OkManifests, d \in Downloads}
    \cup {[manifest |-> m, download |-> NoFaultDownload, write |-> w] :
            m \in OkManifests, w \in Writes}

---------------------------------------------------------------------------
\* The update check.

get_local_version(vf) ==
    IF vf.kind = "absent" THEN [raised |-> FALSE, value |-> 0]
    ELSE IF vf.kind = "malformed" THEN [raised |-> TRUE, value |-> 0]
    ELSE IF vf.kind = "nokey" THEN [raised |-> FALSE, value |-> 0]
    ELSE [raised |-> FALSE, value |-> vf.version]

get_remote_info(manifest) ==
    [raised |-> manifest.kind \in {"network", "malformed"},
     json |-> [hasVersion |-> manifest.kind # "noversion",
               hasUrl |-> manifest.kind # "nourl",
               version |-> manifest.version]]

\* Defect: the file opened for appending ("ab"), its content kept.
open_ab(db) == [exists |-> TRUE, data |-> db.data]

\* open(LOCAL_DB_FILE, "wb"): the file exists and is empty.
open_wb(db) == [exists |-> TRUE, data |-> <<>>]

\* Defect: the file opened before the request is made, so that a failed
\* request leaves it empty.
download_db_open_first(dir, db, blob, dl) ==
    LET f == open_wb(db)
        n == IF dl.fault = "none" THEN Len(blob) ELSE dl.chunks
    IN  [raised |-> dl.fault # "none",
         dataDir |-> TRUE,
         dbFile |-> [exists |-> TRUE, data |-> f.data \o SubSeq(blob, 1, n)]]

\* Defect: an exception of the chunk loop swallowed, the call returning
\* as if the download were whole.
download_db_swallow(dir, db, blob, dl) ==
    IF dl.fault = "request"
    THEN [raised |-> TRUE, dataDir |-> TRUE, dbFile |-> db]
    ELSE LET f == open_wb(db)
             n == IF dl.fault = "stream" THEN dl.chunks ELSE Len(blob)
         IN  [raised |-> FALSE,
              dataDir |-> TRUE,
              dbFile |-> [exists |-> TRUE,
                          data |-> f.data \o SubSeq(blob, 1, n)]]

download_db(dir, db, blob, dl) ==
    IF dl.fault = "request"
    THEN [raised |-> TRUE, dataDir |-> TRUE, dbFile |-> db]
    ELSE LET f == open_wb(db)
             n == IF dl.fault = "stream" THEN dl.chunks ELSE Len(blob)
         IN  [raised |-> dl.fault = "stream",
              dataDir |-> TRUE,
              dbFile |-> [exists |-> TRUE,
                          data |-> f.data \o SubSeq(blob, 1, n)]]

\* with open(LOCAL_VERSION_FILE, "w") as f: json.dump({"version": v}, f)
write_local_version(vf, v, w) ==
    IF w = "open" THEN [raised |-> TRUE, versionFile |-> vf]
    ELSE IF w = "dump" THEN [raised |-> TRUE, versionFile |-> MalformedVersionFile]
    ELSE [raised |-> FALSE, versionFile |-> JsonVersionFile(v)]

\* Defect: the comparison of line 81 written >=.
is_newer_or_equal(remote_version, local_version) ==
    remote_version >= local_version

\* remote_version > local_version
is_newer(remote_version, local_version) == remote_version > local_version

update_db_if_needed(vf, dir, db, env) ==
    LET local == get_local_version(vf)
        remote == get_remote_info(env.manifest)
        error == [status |-> "error", versionFile |-> vf, dataDir |-> dir,
                  dbFile |-> db, downloadStarted |-> FALSE]
    IN  IF local.raised \/ remote.raised THEN error
        ELSE IF ~remote.json.hasVersion \/ ~remote.json.hasUrl THEN error
        ELSE IF is_newer(remote.json.version, local.value)
        THEN LET d == download_db(dir, db, RemoteBlob(remote.json.version),
                                  env.download)
                 w == write_local_version(vf, remote.json.version, env.write)
             IN  IF d.raised
                 THEN [status |-> "error", versionFile |-> vf,
                       dataDir |-> d.dataDir, dbFile |-> d.dbFile,
                       downloadStarted |-> TRUE]
                 ELSE [status |-> IF w.raised THEN "error" ELSE "updated",
                       versionFile |-> w.versionFile,
                       dataDir |-> d.dataDir, dbFile |-> d.dbFile,
                       downloadStarted |-> TRUE]
        ELSE [status |-> "latest", versionFile |-> vf, dataDir |-> dir,
              dbFile |-> db, downloadStarted |-> FALSE]

---------------------------------------------------------------------------
\* The queries.

\* sqlite3.connect(LOCAL_DB_FILE): creates the file when it is missing,
\* and raises when it cannot (no directory "data").
sqlite3_connect(dir, db) ==
    [raised |-> ~db.exists /\ ~dir,
     dbFile |-> IF ~db.exists /\ dir
                THEN [exists |-> TRUE, data |-> <<>>]
                ELSE db]

\* Defect: fetchone() in place of fetchall(): the first row only.
load_issues_fetchone(dir, db) ==
    LET conn == sqlite3_connect(dir, db)
    IN  IF conn.raised \/ ~IsDatabase(conn.dbFile)
        THEN [raised |-> TRUE, rows |-> <<>>, dbFile |-> conn.dbFile]
        ELSE [raised |-> FALSE,
              rows |-> IF conn.dbFile.data[1].rows = <<>> THEN <<>>
                       ELSE <<Head(conn.dbFile.data[1].rows)>>,
              dbFile |-> conn.dbFile]

\* The rows of the table issues, in stored order; execute raises when the
\* file is no database holding that table.
load_issues(dir, db) ==
    LET conn == sqlite3_connect(dir, db)
    IN  IF conn.raised \/ ~IsDatabase(conn.dbFile)
        THEN [raised |-> TRUE, rows |-> <<>>, dbFile |-> conn.dbFile]
        ELSE [raised |-> FALSE, rows |-> conn.dbFile.data[1].rows,
              dbFile |-> conn.dbFile]

\* Defect: the position columns tested without strip().
match_no_strip(row, kw, tab) ==
    LET title == row[1]
        company == row[3]
        union_opt == row[4]
    IN  IF kw # <<>> /\ ~contains(title, kw) THEN FALSE
        ELSE IF tab = TabCompany THEN truthy(company)
        ELSE IF tab = TabUnion THEN truthy(union_opt)
        ELSE TRUE

match(row, kw, tab) ==
    LET title == row[1]
        company == row[3]
        union_opt == row[4]
    IN  IF kw # <<>> /\ ~contains(title, kw) THEN FALSE
        ELSE IF tab = TabCompany
        THEN truthy(company) /\ truthy(strip(company))
        ELSE IF tab = TabUnion
        THEN truthy(union_opt) /\ truthy(strip(union_opt))
        ELSE TRUE

\* Defect: the keyword used as passed, without strip().
get_filtered_issues_no_strip(kwd, tab, dir, db) ==
    LET loaded == load_issues(dir, db)
    IN  [raised |-> loaded.raised,
         rows |-> SelectSeq(loaded.rows, LAMBDA r : match(r, kwd, tab)),
         dbFile |-> loaded.dbFile]

get_filtered_issues(kwd, tab, dir, db) ==
    LET kw == strip(kwd)
        loaded == load_issues(dir, db)
    IN  [raised |-> loaded.raised,
         rows |-> SelectSeq(loaded.rows, LAMBDA r : match(r, kw, tab)),
         dbFile |-> loaded.dbFile]

\* The list is cleared, then gets one item per filtered row, titled by it.
populate_main_list(kwd, tab, dir, db) ==
    LET got == get_filtered_issues(kwd, tab, dir, db)
    IN  [raised |-> got.raised,
         filtered |-> got.rows,
         issue_list |-> [i \in 1..Len(got.rows) |-> got.rows[i][1]],
         dbFile |-> got.dbFile]

\* cur.fetchone() of SELECT ... WHERE title=?: the first row with that
\* title as (summary, company, union_opt), or None.
fetchone(rows, title) ==
    LET hits == {i \in 1..Len(rows) : rows[i][1] = title}
    IN  IF hits = {} THEN None
        ELSE LET i == CHOOSE j \in hits : \A k \in hits : j <= k
             IN  <<rows[i][2], rows[i][3], rows[i][4]>>

DetailKeys == <<"summary", "company", "union">>

\* The loop over the row: one card per column; MDLabel(text=None) raises
\* (the text of a label accepts only str).
RECURSIVE add_cards(_, _, _)
add_cards(row, i, box) ==
    IF i > Len(row) THEN [raised |-> FALSE, detail_box |-> box]
    ELSE IF row[i] = None THEN [raised |-> TRUE, detail_box |-> box]
    ELSE add_cards(row, i + 1,
                   Append(box, [key |-> DetailKeys[i], text |-> row[i]]))

set_detail(title, dir, db) ==
    LET conn == sqlite3_connect(dir, db)
        row == fetchone(conn.dbFile.data[1].rows, title)
    IN  IF conn.raised \/ ~IsDatabase(conn.dbFile)
        THEN [raised |-> TRUE, detail_title |-> title, detail_box |-> <<>>,
              dbFile |-> conn.dbFile]
        ELSE IF row = None
        THEN [raised |-> FALSE, detail_title |-> title, detail_box |-> <<>>,
              dbFile |-> conn.dbFile]
        ELSE LET cards == add_cards(row, 1, <<>>)
             IN  [raised |-> cards.raised, detail_title |-> title,
                  detail_box |-> cards.detail_box, dbFile |-> conn.dbFile]

\* Defect: no branch for the status "error".
show_update_snackbar_no_error(status) ==
    IF status = "updated" THEN "updated"
    ELSE IF status = "latest" THEN "latest"
    ELSE "none"

show_update_snackbar(status) ==
    IF status = "updated" THEN "updated"
    ELSE IF status = "latest" THEN "latest"
    ELSE IF status = "error" THEN "error"
    ELSE "none"

\* MainApp.on_start: the update check, the list, then the notification; an
\* exception of populate_main_list leaves on_start before the notification.
on_start(vf, dir, db, env) ==
    LET u == update_db_if_needed(vf, dir, db, env)
        p == populate_main_list(<<>>, TabAll, u.dataDir, u.dbFile)
    IN  [update |-> u,
         populate |-> p,
         raised |-> p.raised,
         snackbar |-> IF p.raised THEN "none"
                      ELSE show_update_snackbar(u.status)]

---------------------------------------------------------------------------
\* The state machine.

NoEnv == [manifest |-> [kind |-> "none", version |-> 0],
          download |-> NoFaultDownload, write |-> "none"]

NoRun == [ran |-> FALSE, env |-> NoEnv,
          pre |-> [versionFile |-> AbsentVersionFile, dbFile |-> AbsentDbFile],
          post |-> [versionFile |-> AbsentVersionFile, dbFile |-> AbsentDbFile],
          status |-> "none", downloadStarted |-> FALSE]

\* A fresh process: no widget filled, current_tab the class attribute.
FreshUI ==
    /\ current_tab = TabAll
    /\ keyword = <<>>
    /\ filtered = <<>>
    /\ issue_list = <<>>
    /\ screen = "main"
    /\ detail_title = <<>>
    /\ detail_box = <<>>

\* Before the first launch: no version file; the database file shipped
\* with the application or none.
Init ==
    /\ versionFile = AbsentVersionFile
    /\ \/ dataDir = FALSE /\ dbFile = AbsentDbFile
       \/ dataDir = TRUE /\ dbFile = [exists |-> TRUE, data |-> RemoteBlob(0)]
    /\ app = "stopped"
    /\ uncaught = "none"
    /\ handler = "none"
    /\ run = NoRun
    /\ snackbar = "none"
    /\ FreshUI

\* The state on_start leaves from the files vf, dir, db under env.
Started(vf, dir, db, env) ==
    LET s == on_start(vf, dir, db, env)
    IN  /\ versionFile' = s.update.versionFile
        /\ dataDir' = s.update.dataDir
        /\ dbFile' = s.populate.dbFile
        /\ run' = [ran |-> TRUE, env |-> env,
                   pre |-> [versionFile |-> vf, dbFile |-> db],
                   post |-> [versionFile |-> s.update.versionFile,
                             dbFile |-> s.update.dbFile],
                   status |-> s.update.status,
                   downloadStarted |-> s.update.downloadStarted]
        /\ app' = IF s.raised THEN "crashed" ELSE "running"
        /\ uncaught' = IF s.raised THEN "on_start" ELSE "none"
        /\ handler' = "on_start"
        /\ snackbar' = s.snackbar
        /\ current_tab' = TabAll
        /\ keyword' = <<>>
        /\ filtered' = s.populate.filtered
        /\ issue_list' = s.populate.issue_list
        /\ screen' = "main"
        /\ detail_title' = <<>>
        /\ detail_box' = <<>>

\* app.run(): a process starts and the framework calls on_start.
OnStart ==
    /\ app # "running"
    /\ \E env \in Envs : Started(versionFile, dataDir, dbFile, env)

\* populate_main_list(keyword) from the search field.
Search ==
    /\ app = "running"
    /\ \E k \in Keywords :
        LET p == populate_main_list(k, current_tab, dataDir, dbFile)
        IN  /\ keyword' = k
            /\ filtered' = p.filtered
            /\ issue_list' = p.issue_list
            /\ dbFile' = p.dbFile
            /\ app' = IF p.raised THEN "crashed" ELSE "running"
            /\ uncaught' = IF p.raised THEN "populate_main_list" ELSE "none"
            /\ handler' = "populate_main_list"
    /\ UNCHANGED <<versionFile, dataDir, run, snackbar, current_tab, screen,
                   detail_title, detail_box>>

OnTabSwitch ==
    /\ app = "running"
    /\ \E t \in Tabs :
        LET p == populate_main_list(<<>>, t, dataDir, dbFile)
        IN  /\ current_tab' = t
            /\ keyword' = <<>>
            /\ filtered' = p.filtered
            /\ issue_list' = p.issue_list
            /\ dbFile' = p.dbFile
            /\ app' = IF p.raised THEN "crashed" ELSE "running"
            /\ uncaught' = IF p.raised THEN "on_tab_switch" ELSE "none"
            /\ handler' = "on_tab_switch"
    /\ UNCHANGED <<versionFile, dataDir, run, snackbar, screen, detail_title,
                   detail_box>>

OpenDetail ==
    /\ app = "running"
    /\ \E t \in TitleInputs :
        LET d == set_detail(t, dataDir, dbFile)
        IN  /\ detail_title' = d.detail_title
            /\ detail_box' = d.detail_box
            /\ dbFile' = d.dbFile
            /\ screen' = IF d.raised THEN screen ELSE "detail"
            /\ app' = IF d.raised THEN "crashed" ELSE "running"
            /\ uncaught' = IF d.raised THEN "open_detail" ELSE "none"
            /\ handler' = "open_detail"
    /\ UNCHANGED <<versionFile, dataDir, run, snackbar, current_tab, keyword,
                   filtered, issue_list>>

\* The process ends; the files stay.
Stop ==
    /\ app = "running"
    /\ app' = "stopped"
    /\ uncaught' = "none"
    /\ handler' = "none"
    /\ snackbar' = "none"
    /\ current_tab' = TabAll
    /\ keyword' = <<>>
    /\ filtered' = <<>>
    /\ issue_list' = <<>>
    /\ screen' = "main"
    /\ detail_title' = <<>>
    /\ detail_box' = <<>>
    /\ UNCHANGED <<files, run>>

Next == OnStart \/ Search \/ OnTabSwitch \/ OpenDetail \/ Stop

Spec == Init /\ [][Next]_vars

\* The manifest of an update check that finds version 1 and no fault.
LatestEnv == [manifest |-> [kind |-> "ok", version |-> 1],
              download |-> NoFaultDownload, write |-> "none"]

\* The query specification: the application installed at version 1 with any
\* table of at most MaxRows rows, started with the database up to date.
InitQuery ==
    /\ versionFile = JsonVersionFile(1)
    /\ dataDir = TRUE
    /\ \E R \in Tables : dbFile = [exists |-> TRUE, data |-> Blob(1, R)]
    /\ app = "stopped"
    /\ uncaught = "none"
    /\ handler = "none"
    /\ run = NoRun
    /\ snackbar = "none"
    /\ FreshUI

StartLatest ==
    /\ app = "stopped"
    /\ Started(versionFile, dataDir, dbFile, LatestEnv)

NextQuery == StartLatest \/ Search \/ OnTabSwitch \/ OpenDetail

SpecQuery == InitQuery /\ [][NextQuery]_vars

---------------------------------------------------------------------------
\* What the claims speak of.

\* The version a readable version file stands for.
VLocal == IF run.pre.versionFile.kind = "json"
          THEN run.pre.versionFile.version
          ELSE 0

VRemote == run.env.manifest.version

\* The last update check read both versions.
BothVersionsRead ==
    /\ run.ran
    /\ run.env.manifest.kind = "ok"
    /\ run.pre.versionFile.kind # "malformed"

\* The last update check went into the download.
DownloadDue == BothVersionsRead /\ VRemote > VLocal

\* The download of the last update check failed after the file was opened.
StreamFailed == DownloadDue /\ run.env.download.fault = "stream"

\* The last update check met a network failure.
NetworkFailure ==
    /\ run.ran
    /\ \/ run.env.manifest.kind = "network"
       \/ DownloadDue /\ run.env.download.fault \in {"request", "stream"}

\* The last update check met a failure of any kind.
UpdateFailure ==
    /\ run.ran
    /\ \/ run.pre.versionFile.kind = "malformed"
       \/ run.env.manifest.kind # "ok"
       \/ DownloadDue /\ run.env.download.fault # "none"
       \/ DownloadDue /\ run.env.write # "none"

\* The first k chunks of the published file of version v, as a file.
Truncated(v, k) == [exists |-> TRUE, data |-> SubSeq(RemoteBlob(v), 1, k)]

\* The rows stored in the issues table (of a whole database file).
StoredRows == dbFile.data[1].rows

NonEmptyAfterTrim(x) == x # None /\ strip(x) # <<>>

\* The filter contract with keyword k and tab t.
Keep(row, k, t) ==
    /\ k = <<>> \/ contains(row[1], k)
    /\ \/ t = TabAll
       \/ t = TabCompany /\ NonEmptyAfterTrim(row[3])
       \/ t = TabUnion /\ NonEmptyAfterTrim(row[4])

\* The files f hold the whole content of one version, and its number.
Governed(vf, db) ==
    /\ IsDatabase(db)
    /\ db.data[1].ver = (IF vf.kind = "json" THEN vf.version ELSE 0)

\* The database file holds chunks 1, 2, ... of one published file only.
OneVersionPrefix(db) ==
    /\ Len(db.data) <= NChunks
    /\ \A i \in 1..Len(db.data) :
        /\ db.data[i].part = i
        /\ db.data[i].ver = db.data[1].ver
        /\ db.data[i].rows = db.data[1].rows

---------------------------------------------------------------------------
\* C1: when an update check reads both versions and nothing fails, then if
\* the remote version is greater it returns "updated" and the version file
\* holds the remote version, and otherwise it returns "latest", starts no
\* download and leaves the version file (and the database file) unchanged.
C1_UpdateOutcome ==
    (BothVersionsRead
     /\ (DownloadDue => run.env.download.fault = "none" /\ run.env.write = "none"))
    => IF VRemote > VLocal
       THEN /\ run.status = "updated"
            /\ run.post.versionFile = JsonVersionFile(VRemote)
            /\ versionFile = JsonVersionFile(VRemote)
       ELSE /\ run.status = "latest"
            /\ ~run.downloadStarted
            /\ run.post.versionFile = run.pre.versionFile
            /\ versionFile = run.pre.versionFile
            /\ run.post.dbFile = run.pre.dbFile

\* C1 witness: an installed version 1 was replaced by a greater version.
C1_Witness ==
    /\ DownloadDue
    /\ VLocal = 1
    /\ run.status = "updated"
    /\ versionFile = JsonVersionFile(VRemote)

\* C2 as claimed: a network failure at any point of the update check returns
\* "error" and leaves the version file and the database file as they were.
C2_Original ==
    NetworkFailure
    => /\ run.status = "error"
       /\ run.post.versionFile = run.pre.versionFile
       /\ run.post.dbFile = run.pre.dbFile

\* C2 amended: a network failure returns "error" and leaves the version file
\* as it was; the database file is as it was when the failure comes before
\* the file is opened (manifest fetch, download request), and holds only the
\* chunks received when the failure comes mid-stream.
C2_NetworkFailure ==
    NetworkFailure
    => /\ run.status = "error"
       /\ run.post.versionFile = run.pre.versionFile
       /\ versionFile = run.pre.versionFile
       /\ IF StreamFailed
          THEN run.post.dbFile = Truncated(VRemote, run.env.download.chunks)
          ELSE run.post.dbFile = run.pre.dbFile

\* C2 witness: a download failed mid-stream over a whole database file.
C2_Witness ==
    /\ StreamFailed
    /\ run.env.download.chunks >= 1
    /\ IsDatabase(run.pre.dbFile)
    /\ run.status = "error"
    /\ ~IsDatabase(run.post.dbFile)

\* C3 as claimed: with the version file absent or unreadable the local
\* version is 0, so a check that meets no other failure and finds a remote
\* version greater than 0 returns "updated".
C3_Claim ==
    (/\ run.ran
     /\ run.pre.versionFile.kind \in {"absent", "malformed"}
     /\ run.env.manifest.kind = "ok"
     /\ VRemote > 0
     /\ run.env.download.fault = "none"
     /\ run.env.write = "none")
    => run.status = "updated"

\* C4 as claimed: the rows returned are, in stored order, those the filter
\* contract keeps for the keyword as passed and the tab.
C4_Original ==
    app = "running"
    => filtered = SelectSeq(StoredRows, LAMBDA r : Keep(r, keyword, current_tab))

\* C4 amended: the rows returned are, in stored order, those the filter
\* contract keeps for the keyword stripped of leading and trailing
\* whitespace and the tab.
C4_Filter ==
    app = "running"
    => filtered = SelectSeq(StoredRows,
                            LAMBDA r : Keep(r, strip(keyword), current_tab))

\* C4 witness: a keyword with a leading blank on the company tab kept one
\* row of two.
C4_Witness ==
    /\ app = "running"
    /\ handler = "populate_main_list"
    /\ keyword = <<Space, "a">>
    /\ current_tab = TabCompany
    /\ Len(StoredRows) = 2
    /\ Len(filtered) = 1

\* C5 as claimed: every failure of the update check at start gives status
\* "error" and the error notification is shown in that run of on_start.
C5_Original ==
    (handler = "on_start" /\ UpdateFailure)
    => run.status = "error" /\ snackbar = "error"

\* C5 amended: every failure of the update check at start gives status
\* "error"; the error notification is shown when the database file can be
\* queried, and when it cannot, populate_main_list raises out of on_start
\* and no notification is shown.
C5_ErrorShown ==
    (handler = "on_start" /\ UpdateFailure)
    => /\ run.status = "error"
       /\ IF IsDatabase(run.post.dbFile)
          THEN app = "running" /\ snackbar = "error"
          ELSE app = "crashed" /\ uncaught = "on_start" /\ snackbar = "none"

\* C5 witness: a failed update check over a usable database, notified.
C5_Witness ==
    /\ handler = "on_start"
    /\ UpdateFailure
    /\ IsDatabase(dbFile)
    /\ snackbar = "error"

\* C6 as claimed: after any update checks the database file holds the whole
\* content of one published version and the version file its number.
C6_Original == run.ran => Governed(versionFile, dbFile)

\* C6 amended: the database file, when it exists, holds a prefix (whole, or
\* cut short) of the content of one published version, never two versions
\* mixed; and after a check that returned "updated" it holds the whole
\* content of the remote version, whose number the version file holds.
C6_OneVersion ==
    /\ dbFile.exists => OneVersionPrefix(dbFile)
    /\ (run.ran /\ run.status = "updated")
       => /\ Governed(versionFile, dbFile)
          /\ versionFile = JsonVersionFile(VRemote)
          /\ dbFile.data = RemoteBlob(VRemote)

\* C6 witness: an update replaced the whole file of another version.
C6_Witness ==
    /\ run.ran
    /\ run.status = "updated"
    /\ IsDatabase(run.pre.dbFile)
    /\ run.pre.dbFile.data[1].ver # VRemote
    /\ dbFile.data = RemoteBlob(VRemote)

\* C7: with an empty keyword, the company tab returns exactly the rows whose
\* company is neither NULL nor empty nor blank, and the union tab those
\* whose union_opt is, whatever the other column holds.
C7_PositionTabs ==
    (app = "running" /\ keyword = <<>>)
    => /\ current_tab = TabCompany
          => filtered = SelectSeq(StoredRows,
                                  LAMBDA r : NonEmptyAfterTrim(r[3]))
       /\ current_tab = TabUnion
          => filtered = SelectSeq(StoredRows,
                                  LAMBDA r : NonEmptyAfterTrim(r[4]))

\* C7 witness: the company tab dropped a row with a blank company and kept
\* a row with text in blanks whose union_opt is empty.
C7_Witness ==
    /\ app = "running"
    /\ handler = "on_tab_switch"
    /\ current_tab = TabCompany
    /\ keyword = <<>>
    /\ Len(StoredRows) = 2
    /\ StoredRows[1][3] = <<Space>>
    /\ filtered = <<StoredRows[2]>>
    /\ StoredRows[2][3] = <<Space, "x", Space>>
    /\ StoredRows[2][4] = <<>>

\* C8: with keyword "" and the tab "all", the rows returned are the rows of
\* the table, unchanged and in stored order, none dropped or repeated.
C8_Identity ==
    (app = "running" /\ keyword = <<>> /\ current_tab = TabAll)
    => /\ filtered = StoredRows
       /\ issue_list = [i \in 1..Len(StoredRows) |-> StoredRows[i][1]]

\* C8 witness: two different rows with the same title, both listed.
C8_Witness ==
    /\ app = "running"
    /\ keyword = <<>>
    /\ current_tab = TabAll
    /\ Len(filtered) = 2
    /\ filtered[1] # filtered[2]
    /\ filtered[1][1] = filtered[2][1]

\* C9 as claimed: set_detail of a title stored nowhere clears the box, adds
\* no card and does not raise; of a stored title it shows the three cards
\* (summary, company, union) of the first row with that title.
C9_Claim ==
    handler = "open_detail"
    => LET hits == {i \in 1..Len(StoredRows) :
                        StoredRows[i][1] = detail_title}
       IN  /\ uncaught = "none"
           /\ IF hits = {}
              THEN detail_box = <<>>
              ELSE LET r == StoredRows[CHOOSE i \in hits :
                                           \A j \in hits : i <= j]
                   IN  detail_box = <<[key |-> "summary", text |-> r[2]],
                                      [key |-> "company", text |-> r[3]],
                                      [key |-> "union", text |-> r[4]]>>

\* C10: a download that fails mid-stream returns "error", leaves the version
\* file as it was and the database file cut short, not restored; and the
\* next update check with the same manifest goes into the download again.
C10_MidStream ==
    /\ [](StreamFailed
          => /\ run.status = "error"
             /\ run.downloadStarted
             /\ versionFile = run.pre.versionFile
             /\ run.post.dbFile = Truncated(VRemote, run.env.download.chunks)
             /\ ~IsDatabase(run.post.dbFile))
    /\ [][(StreamFailed /\ app # "running"
           /\ run'.env.manifest = run.env.manifest)
          => run'.downloadStarted]_vars

\* C10 witness: a mid-stream failure of a check that found the file cut
\* short by an earlier download of the same version.
C10_Witness ==
    /\ StreamFailed
    /\ run.status = "error"
    /\ run.pre.dbFile.exists
    /\ ~IsDatabase(run.pre.dbFile)
    /\ Len(run.pre.dbFile.data) >= 1
    /\ run.pre.dbFile.data[1].ver = VRemote
    /\ Len(run.post.dbFile.data) >= 1

====
